---------------------------- MODULE Spec2Model ----------------------------
(***************************************************************************)
(* Model of VPaint's TransformTool (TransformTool.cpp): the hover state,   *)
(* the drag protocol beginTransform / continueTransform / endTransform,    *)
(* the widget geometry helpers and the affine transform they build.        *)
(*                                                                         *)
(* Numbers.  The code computes in IEEE doubles.  The model computes in     *)
(* exact rationals extended with +inf, -inf and NaN, so that a division by *)
(* zero gives what the machine gives.  A value is a pair <<n, d>>:         *)
(*   d > 0   the rational n/d in lowest terms,                             *)
(*   <<1,0>> +inf, <<-1,0>> -inf, <<0,0>> NaN.                             *)
(* The subtractions that cache the baseline of a drag and that form the    *)
(* scale ratios, and the sum and the product of a mid point of a box,      *)
(* round to the nearest double (ties to even), a double having DoubleBits  *)
(* significant bits; the exponent range is not limited.  The other         *)
(* operations are exact, and the sign of zero is not modelled.             *)
(***************************************************************************)
EXTENDS Integers, Sequences, FiniteSets, TLC

-----------------------------------------------------------------------------
(* Extended rational arithmetic (IEEE double operators)                    *)

Abs(n) == IF n < 0 THEN -n ELSE n

Sgn(n) == IF n > 0 THEN 1 ELSE IF n < 0 THEN -1 ELSE 0

RECURSIVE Gcd(_, _)
Gcd(a, b) == IF b = 0 THEN a ELSE Gcd(b, a % b)

\* n/d in lowest terms with a positive denominator (d # 0)
Norm(n, d) ==
    LET g == Gcd(Abs(n), Abs(d))
    IN  <<Sgn(d) * (n \div g), Abs(d) \div g>>

Zero == <<0, 1>>
One == <<1, 1>>
Half == <<1, 2>>
PosInf == <<1, 0>>
NegInf == <<-1, 0>>
NaN == <<0, 0>>

Num(k) == <<k, 1>>

IsNaN(a) == a = NaN
IsInf(a) == a[2] = 0 /\ a[1] # 0
IsFinite(a) == a[2] > 0

\* a + b
FAdd(a, b) ==
    IF IsNaN(a) \/ IsNaN(b) THEN NaN
    ELSE IF IsInf(a) /\ IsInf(b) THEN (IF a = b THEN a ELSE NaN)
    ELSE IF IsInf(a) THEN a
    ELSE IF IsInf(b) THEN b
    ELSE Norm(a[1] * b[2] + b[1] * a[2], a[2] * b[2])

\* -a
FNeg(a) == <<-a[1], a[2]>>

\* a - b
FSub(a, b) == FAdd(a, FNeg(b))

\* a * b
FMul(a, b) ==
    IF IsNaN(a) \/ IsNaN(b) THEN NaN
    ELSE IF IsInf(a) \/ IsInf(b)
         THEN (IF a[1] = 0 \/ b[1] = 0 THEN NaN ELSE <<Sgn(a[1]) * Sgn(b[1]), 0>>)
    ELSE Norm(a[1] * b[1], a[2] * b[2])

\* a / b: x/0 is an infinity, 0/0 and inf/inf are NaN
FDiv(a, b) ==
    IF IsNaN(a) \/ IsNaN(b) THEN NaN
    ELSE IF IsInf(a) THEN (IF IsInf(b) THEN NaN
                           ELSE <<Sgn(a[1]) * (IF b[1] < 0 THEN -1 ELSE 1), 0>>)
    ELSE IF IsInf(b) THEN Zero
    ELSE IF b[1] = 0 THEN (IF a[1] = 0 THEN NaN ELSE <<Sgn(a[1]), 0>>)
    ELSE Norm(a[1] * b[2], a[2] * b[1])

\* the significand of a double, in bits
DoubleBits == 4

\* the powers of two a double of the model has for a denominator
PowersOfTwo == {2 ^ k : k \in 0 .. 12}

\* the exponent e of the finite a # 0: 2^(DoubleBits-1) <= |a| / 2^e < 2^DoubleBits
RECURSIVE ExponentOf(_, _)
ExponentOf(a, e) ==
    IF (IF e >= 0 THEN Abs(a[1]) ELSE Abs(a[1]) * 2 ^ (-e))
          < 2 ^ (DoubleBits - 1) * (IF e >= 0 THEN a[2] * 2 ^ e ELSE a[2])
    THEN ExponentOf(a, e - 1)
    ELSE IF (IF e >= 0 THEN Abs(a[1]) ELSE Abs(a[1]) * 2 ^ (-e))
               >= 2 ^ DoubleBits * (IF e >= 0 THEN a[2] * 2 ^ e ELSE a[2])
    THEN ExponentOf(a, e + 1)
    ELSE e

\* the integer nearest to num / den, ties to the even one
NearestEven(num, den) ==
    IF 2 * (num % den) < den THEN num \div den
    ELSE IF 2 * (num % den) > den THEN (num \div den) + 1
    ELSE (num \div den) + ((num \div den) % 2)

\* the finite a # 0 rounded to a significand of DoubleBits bits at the exponent e
RoundAt(a, e) ==
    IF e >= 0 THEN <<Sgn(a[1]) * NearestEven(Abs(a[1]), a[2] * 2 ^ e) * 2 ^ e, 1>>
    ELSE Norm(Sgn(a[1]) * NearestEven(Abs(a[1]) * 2 ^ (-e), a[2]), 2 ^ (-e))

\* the double nearest to a, ties to the even significand; a itself when it
\* is a double
Fl(a) ==
    IF ~IsFinite(a) \/ (Abs(a[1]) < 2 ^ DoubleBits /\ a[2] \in PowersOfTwo) THEN a
    ELSE RoundAt(a, ExponentOf(a, 0))

\* a - b on doubles
DSub(a, b) == Fl(FSub(a, b))

\* a == b on doubles: NaN equals nothing, itself included
FEq(a, b) == ~IsNaN(a) /\ ~IsNaN(b) /\ a = b

\* a < b on doubles (false when either is NaN)
FLess(a, b) ==
    /\ ~IsNaN(a) /\ ~IsNaN(b) /\ a # b
    /\ IF IsInf(a) THEN a = NegInf
       ELSE IF IsInf(b) THEN b = PosInf
       ELSE a[1] * b[2] < b[1] * a[2]


-----------------------------------------------------------------------------
(* BoundingBox (BoundingBox.h is not among the sources): an axis-aligned   *)
(* box given by its extents.  The box nothing has been united into has     *)
(* min = +inf and max = -inf.                                              *)

Box(x1, x2, y1, y2) == [xMin |-> x1, xMax |-> x2, yMin |-> y1, yMax |-> y2]

EmptyBox == Box(PosInf, NegInf, PosInf, NegInf)

xMid(bb) == Fl(FMul(Half, Fl(FAdd(bb.xMin, bb.xMax))))

yMid(bb) == Fl(FMul(Half, Fl(FAdd(bb.yMin, bb.yMax))))

\* positive finite extent on both axes
isProper(bb) ==
    /\ FLess(bb.xMin, bb.xMax) /\ FLess(bb.yMin, bb.yMax)
    /\ IsFinite(bb.xMin) /\ IsFinite(bb.xMax)
    /\ IsFinite(bb.yMin) /\ IsFinite(bb.yMax)

-----------------------------------------------------------------------------
(* int: IntBits bits, two's complement.  Signed overflow is undefined; the *)
(* builds compute it by wrapping around, which is what Wrap does.          *)

IntBits == 5

MinInt == -(2 ^ (IntBits - 1))

MaxInt == 2 ^ (IntBits - 1) - 1

Ints == MinInt .. MaxInt

Wrap(n) == ((n - MinInt) % (2 ^ IntBits)) + MinInt

-----------------------------------------------------------------------------
(* TransformTool::WidgetId                                                 *)

None == 0
TopLeftScale == 1
TopRightScale == 2
BottomRightScale == 3
BottomLeftScale == 4
TopScale == 5
RightScale == 6
BottomScale == 7
LeftScale == 8
TopLeftRotate == 9
TopRightRotate == 10
BottomRightRotate == 11
BottomLeftRotate == 12
MIN_WIDGET_ID == TopLeftScale
MAX_WIDGET_ID == BottomLeftRotate

WidgetIds == MIN_WIDGET_ID .. MAX_WIDGET_ID

\* Widget position
widgetPos_(id, bb) ==
    CASE id = TopLeftScale      -> <<bb.xMin, bb.yMin>>
      [] id = TopRightScale     -> <<bb.xMax, bb.yMin>>
      [] id = BottomRightScale  -> <<bb.xMax, bb.yMax>>
      [] id = BottomLeftScale   -> <<bb.xMin, bb.yMax>>
      [] id = TopScale          -> <<xMid(bb), bb.yMin>>
      [] id = RightScale        -> <<bb.xMax, yMid(bb)>>
      [] id = BottomScale       -> <<xMid(bb), bb.yMax>>
      [] id = LeftScale         -> <<bb.xMin, yMid(bb)>>
      [] id = TopLeftRotate     -> <<bb.xMin, bb.yMin>>
      [] id = TopRightRotate    -> <<bb.xMax, bb.yMin>>
      [] id = BottomRightRotate -> <<bb.xMax, bb.yMax>>
      [] id = BottomLeftRotate  -> <<bb.xMin, bb.yMax>>
      [] OTHER                  -> <<Zero, Zero>>

\* the edge widgets answering with their own edge
MutWidgetOppositePos_(id, bb) ==
    CASE id \in {TopLeftScale, TopLeftRotate}         -> <<bb.xMax, bb.yMax>>
      [] id \in {TopRightScale, TopRightRotate}       -> <<bb.xMin, bb.yMax>>
      [] id \in {BottomRightScale, BottomRightRotate} -> <<bb.xMin, bb.yMin>>
      [] id \in {BottomLeftScale, BottomLeftRotate}   -> <<bb.xMax, bb.yMin>>
      [] id = TopScale                                -> <<xMid(bb), bb.yMin>>
      [] id = RightScale                              -> <<bb.xMax, yMid(bb)>>
      [] id = BottomScale                             -> <<xMid(bb), bb.yMax>>
      [] id = LeftScale                               -> <<bb.xMin, yMid(bb)>>
      [] OTHER                                        -> <<Zero, Zero>>

\* Widget opposite position
widgetOppositePos_(id, bb) ==
    CASE id = TopLeftScale      -> <<bb.xMax, bb.yMax>>
      [] id = TopRightScale     -> <<bb.xMin, bb.yMax>>
      [] id = BottomRightScale  -> <<bb.xMin, bb.yMin>>
      [] id = BottomLeftScale   -> <<bb.xMax, bb.yMin>>
      [] id = TopScale          -> <<xMid(bb), bb.yMax>>
      [] id = RightScale        -> <<bb.xMin, yMid(bb)>>
      [] id = BottomScale       -> <<xMid(bb), bb.yMin>>
      [] id = LeftScale         -> <<bb.xMax, yMid(bb)>>
      [] id = TopLeftRotate     -> <<bb.xMax, bb.yMax>>
      [] id = TopRightRotate    -> <<bb.xMin, bb.yMax>>
      [] id = BottomRightRotate -> <<bb.xMin, bb.yMin>>
      [] id = BottomLeftRotate  -> <<bb.xMax, bb.yMin>>
      [] OTHER                  -> <<Zero, Zero>>

-----------------------------------------------------------------------------
(* Angles and affine maps.                                                 *)
(*                                                                         *)
(* std::atan2(y, x) is modelled by the direction it measures: a pair of    *)
(* coprime integers <<cx, cy>> (the ray from the origin through (cx, cy)), *)
(* <<1, 0>> for the angle 0 and <<0, 0>> for a NaN angle.  The difference  *)
(* of two angles is the direction of the quotient of the two rays.         *)
(*                                                                         *)
(* An entry of an affine matrix is a pair <<r, i>> standing for            *)
(* r + i / sqrt(n), where n is the matrix's radicand: cos and sin of a     *)
(* rotation by the direction <<c, s>> are c / sqrt(c*c + s*s) and          *)
(* s / sqrt(c*c + s*s), rational exactly when c*c + s*s is a square.       *)

Prim(cx, cy) ==
    IF cx = 0 /\ cy = 0 THEN <<1, 0>>
    ELSE LET g == Gcd(Abs(cx), Abs(cy)) IN <<cx \div g, cy \div g>>

NaNAngle == <<0, 0>>

\* std::atan2(y, x)
Atan2(y, x) ==
    IF IsNaN(y) \/ IsNaN(x) THEN NaNAngle
    ELSE IF IsInf(x) \/ IsInf(y)
         THEN <<IF IsInf(x) THEN x[1] ELSE 0, IF IsInf(y) THEN y[1] ELSE 0>>
    ELSE Prim(x[1] * y[2], y[1] * x[2])

\* theta - theta0
AngleDiff(theta, theta0) ==
    IF theta = NaNAngle \/ theta0 = NaNAngle THEN NaNAngle
    ELSE Prim(theta0[1] * theta[1] + theta0[2] * theta[2],
              theta0[1] * theta[2] - theta0[2] * theta[1])

IsSquare(n) == \E r \in 0 .. n : r * r = n

ISqrt(n) == CHOOSE r \in 0 .. n : r * r = n

ERat(r) == <<r, Zero>>

ENorm(e) == IF IsFinite(e[1]) THEN e ELSE <<e[1], Zero>>

EAdd(e, f) == ENorm(<<FAdd(e[1], f[1]), FAdd(e[2], f[2])>>)

\* the entry e times the double v
EScale(e, v) ==
    IF e[2] = Zero THEN <<FMul(e[1], v), Zero>>
    ELSE IF IsFinite(v) THEN <<Zero, FMul(e[2], v)>>
    ELSE <<FMul(Num(Sgn(e[2][1])), v), Zero>>

EZero == ERat(Zero)
EOne == ERat(One)

\* matrix m (2x2, entries <<r, i>>) times the vector v of doubles
MatVec(m, v) ==
    << EAdd(EScale(m[1][1], v[1]), EScale(m[1][2], v[2])),
       EAdd(EScale(m[2][1], v[1]), EScale(m[2][2], v[2])) >>

\* Eigen::Scaling(sx, sy) as an Affine2d
Scaling(sx, sy) ==
    [lin |-> << <<ERat(sx), EZero>>, <<EZero, ERat(sy)>> >>,
     tr  |-> <<EZero, EZero>>,
     n   |-> 1]

\* Eigen::Rotation2Dd(dTheta) as an Affine2d
Rotation2D(d) ==
    LET n == d[1] * d[1] + d[2] * d[2]
        ent(k) == IF d = NaNAngle THEN ERat(NaN)
                  ELSE IF IsSquare(n) THEN ERat(Norm(k, ISqrt(n)))
                  ELSE IF k = 0 THEN EZero
                  ELSE <<Zero, Num(k)>>
    IN  [lin |-> << <<ent(d[1]), ent(-d[2])>>, <<ent(d[2]), ent(d[1])>> >>,
         tr  |-> <<EZero, EZero>>,
         n   |-> IF d = NaNAngle \/ IsSquare(n) THEN 1 ELSE n]

\* pivot * xf * pivot.inverse(), pivot the Translation2d by p
RelativeToPivot(xf, p) ==
    LET lp == MatVec(xf.lin, <<FNeg(p[1]), FNeg(p[2])>>)
    IN  [xf EXCEPT !.tr = << EAdd(lp[1], ERat(p[1])),
                             EAdd(lp[2], ERat(p[2])) >>]

\* the affine map xf applied to the point q
ApplyXf(xf, q) ==
    LET lq == MatVec(xf.lin, q)
    IN  << EAdd(lq[1], xf.tr[1]), EAdd(lq[2], xf.tr[2]) >>

\* the identity matrix, as built around any finite pivot
IdentityXf == Scaling(One, One)

NoXf == [lin |-> <<>>, tr |-> <<>>, n |-> 0]

-----------------------------------------------------------------------------
(* The vector animation complex the tool works on (Cell, KeyCell,          *)
(* InbetweenCell, VAC and Algorithms are not among the sources): a small   *)
(* complex with two key edges, their end vertices and one inbetween edge.  *)
(*   e1 = (v1, v2)   key edge at time 0                                    *)
(*   s1              inbetween edge starting at e1, existing at time 1     *)
(*   e2 = (v3, v4)   the key edge that keyframing s1 at time 1 gives       *)

KeyVertices == {"v1", "v2", "v3", "v4"}
KeyEdges == {"e1", "e2"}
InbetweenCells == {"s1"}
Cells == KeyVertices \cup KeyEdges \cup InbetweenCells

Times == {0, 1}

\* the time of a key cell
KeyTime(c) == IF c \in {"e2", "v3", "v4"} THEN 1 ELSE 0

\* InbetweenCell::exists(time)
exists(sc, time) == sc = "s1" /\ time = 1

\* whether the cell has geometry at the time
ExistsAt(c, time) ==
    IF c \in InbetweenCells THEN exists(c, time) ELSE KeyTime(c) = time

\* Cell::boundary()
Boundary(c) ==
    CASE c = "e1" -> {"v1", "v2"}
      [] c = "e2" -> {"v3", "v4"}
      [] c = "s1" -> {"e1"}
      [] OTHER    -> {}

\* Algorithms::closure(cells)
RECURSIVE closure(_)
closure(cells) ==
    LET more == cells \cup UNION {Boundary(c) : c \in cells}
    IN  IF more = cells THEN cells ELSE closure(more)

\* the key cell that keyframing the inbetween cell at the time gives
KeyframeOf(sc, time) == "e2"

\* VAC::keyframe_(cells, time): the key cells of the inbetween cells
keyframe_(cells, time) == {KeyframeOf(c, time) : c \in cells}

\* KeyVertexSet(cells), KeyEdgeSet(cells): the cells of that type
KeyVertexSet(cells) == cells \cap KeyVertices

KeyEdgeSet(cells) == cells \cap KeyEdges

\* The cell sets the callers pass (the selection)
CellSets == {{}, {"v1"}, {"e1", "s1"}}

\* The outline boxes Cell::outlineBoundingBox(time) can unite to
ProperBoxes == {Box(Num(0), Num(10), Num(0), Num(10))}

\* bb after the loop uniting boundingBox(time) of every cell: empty when no
\* cell is there at the time, a point for a lone vertex
PointBox == Box(Num(5), Num(5), Num(5), Num(5))

BoundingBoxes(cells, time) ==
    LET there == {c \in cells : ExistsAt(c, time)}
    IN  IF there = {} THEN {EmptyBox}
        ELSE IF Cardinality(there) = 1 /\ there \subseteq KeyVertices THEN {PointBox}
        ELSE ProperBoxes

\* obb after the loop uniting outlineBoundingBox(time) of every cell
OutlineBoundingBoxes(cells, time) ==
    IF \A c \in cells : ~ExistsAt(c, time) THEN {EmptyBox} ELSE ProperBoxes

\* Pointer positions (scene coordinates of the mouse): MaxPointer + 1 points
\* on the diagonal of the box, and one on its top right corner
MaxPointer == 1

Pointer ==
    {<<Num(5 * k), Num(5 * k)>> : k \in 0 .. MaxPointer} \cup {<<Num(10), Num(0)>>}

\* Pick ids the picking subsystem may report: every widget's, and one below
\* and one above the widgets'
AllPickIds == -1 .. 12

\* A sample of them: a widget of each kind, and the two that are no widget's
PickIds == {-1, 0, 4, 7, 8, 12}

\* Offsets the owner of the tool may assign
IdOffsets == {0}

\* Every offset whose twelve pick ids idOffset .. idOffset + 11 are ints:
\* the owner hands the tool a range of the id space of the picking
PickOffsets == {o \in Ints : o + (MAX_WIDGET_ID - MIN_WIDGET_ID) <= MaxInt}

\* Values an uninitialized double member may hold
UninitDoubles == {Zero, NaN}

-----------------------------------------------------------------------------
(* State                                                                   *)

VARIABLES
    cells_,            \* TransformTool::cells_
    idOffset_,         \* TransformTool::idOffset_
    hovered_,          \* TransformTool::hovered_
    manualPivot_,      \* TransformTool::manualPivot_
    draggedVertices_,  \* TransformTool::draggedVertices_
    draggedEdges_,     \* TransformTool::draggedEdges_
    x0_, y0_,          \* start mouse position
    dx_, dy_,          \* offset between mouse position and position on obb
    xPivot_, yPivot_,  \* position of the pivot point
    mode,              \* "Idle", "IdlePressed" (drag start aborted), "Dragging"
    calls,             \* calls the last operation made on its collaborators
    lastOp,            \* the last operation and what it was given
    drag               \* what the last non-aborting beginTransform was given

toolVars == <<cells_, idOffset_, hovered_, manualPivot_, draggedVertices_,
              draggedEdges_, x0_, y0_, dx_, dy_, xPivot_, yPivot_>>

baseline == <<x0_, y0_, dx_, dy_, xPivot_, yPivot_>>

vars == <<cells_, idOffset_, hovered_, manualPivot_, draggedVertices_,
          draggedEdges_, x0_, y0_, dx_, dy_, xPivot_, yPivot_,
          mode, calls, lastOp, drag>>

Op(name) ==
    [op |-> name, aborted |-> FALSE, cellsEmpty |-> FALSE, first |-> FALSE,
     x |-> Zero, y |-> Zero, xf |-> NoXf, id |-> 0, again |-> FALSE,
     bb |-> EmptyBox]

NoDrag ==
    [set |-> FALSE, cleared |-> FALSE, hov |-> None, obb |-> EmptyBox,
     x0 |-> Zero, y0 |-> Zero, cells |-> {}, time |-> 0, prepared |-> {}]

\* TransformTool::TransformTool(): x0_ .. yPivot_ are left uninitialized
Init ==
    /\ cells_ = {}
    /\ idOffset_ = 0
    /\ hovered_ = None
    /\ manualPivot_ = FALSE
    /\ draggedVertices_ = {}
    /\ draggedEdges_ = {}
    /\ \E g \in UninitDoubles :
         /\ x0_ = g /\ y0_ = g /\ dx_ = g /\ dy_ = g /\ xPivot_ = g /\ yPivot_ = g
    /\ mode = "Idle"
    /\ calls = <<>>
    /\ lastOp = Op("other")
    /\ drag = NoDrag

-----------------------------------------------------------------------------
(* Calls on the collaborators.  The cells of one foreach loop are logged   *)
(* as one entry holding the set the loop ran over (the order inside a      *)
(* QSet is not fixed); the entries are in program order.                   *)

Call(name, cs, t, xf) == [call |-> name, cells |-> cs, time |-> t, xf |-> xf]

\* the cells the logged calls of that name were made on
CalledOn(log, name) ==
    UNION {log[i].cells : i \in {j \in 1 .. Len(log) : log[j].call = name}}

-----------------------------------------------------------------------------
(* TransformTool::setCells, setIdOffset, setHoveredObject,                 *)
(* setNoHoveredObject                                                      *)

setCells(cells) ==
    /\ cells_' = cells
    /\ manualPivot_' = FALSE
    /\ UNCHANGED <<idOffset_, hovered_, draggedVertices_, draggedEdges_, baseline>>
    /\ UNCHANGED <<mode, drag>>
    /\ calls' = <<>>
    /\ lastOp' = Op("other")

setIdOffset(idOffset) ==
    /\ idOffset_' = idOffset
    /\ UNCHANGED <<cells_, hovered_, manualPivot_, draggedVertices_, draggedEdges_,
                   baseline>>
    /\ UNCHANGED <<mode, drag>>
    /\ calls' = <<>>
    /\ lastOp' = Op("other")

\* MIN_WIDGET_ID not subtracted
MutGlPickColor_(id, idOffset) == Wrap(idOffset + id)

\* the id glPickColor_(id) hands to Picking::glColor
glPickColor_(id, idOffset) == Wrap(Wrap(idOffset + id) - MIN_WIDGET_ID)

\* the lower end of the range not tested
MutHoveredFor(id, idOffset) ==
    LET widgetId == Wrap(Wrap(id - idOffset) + MIN_WIDGET_ID)
    IN  IF widgetId <= MAX_WIDGET_ID THEN widgetId ELSE None

\* widgetId computed in integers wider than int
MutHoveredForWide(id, idOffset) ==
    LET widgetId == id - idOffset + MIN_WIDGET_ID
    IN  IF widgetId >= MIN_WIDGET_ID /\ widgetId <= MAX_WIDGET_ID
        THEN widgetId
        ELSE None

\* the widget setHoveredObject(id) selects
HoveredFor(id, idOffset) ==
    LET widgetId == Wrap(Wrap(id - idOffset) + MIN_WIDGET_ID)
    IN  IF widgetId >= MIN_WIDGET_ID /\ widgetId <= MAX_WIDGET_ID
        THEN widgetId
        ELSE None

setHoveredObject(id) ==
    /\ hovered_' = HoveredFor(id, idOffset_)
    /\ UNCHANGED <<cells_, idOffset_, manualPivot_, draggedVertices_, draggedEdges_,
                   baseline>>
    /\ UNCHANGED <<mode, drag>>
    /\ calls' = <<>>
    /\ lastOp' = [Op("setHoveredObject") EXCEPT !.id = id]

setNoHoveredObject ==
    /\ hovered_' = None
    /\ UNCHANGED <<cells_, idOffset_, manualPivot_, draggedVertices_, draggedEdges_,
                   baseline>>
    /\ UNCHANGED <<mode, drag>>
    /\ calls' = <<>>
    /\ lastOp' = [Op("setNoHoveredObject") EXCEPT
                    !.again = (lastOp.op = "setNoHoveredObject")]

-----------------------------------------------------------------------------
(* computeArrow_, glFillArrow_, glStrokeArrow_.  A point of the contour is *)
(* kept as the terms it is computed from: the radius r, the unit vector u  *)
(* (of the start angle, of the end angle, or of sample i) and the sign of  *)
(* the tip offset along the normal.                                        *)

rotateWidgetNumSamples == 20

\* rotateWidgetMidAngle_(id), in units of PI/4
rotateWidgetMidAngle_(id) ==
    CASE id = TopLeftRotate     -> 5
      [] id = TopRightRotate    -> 7
      [] id = BottomRightRotate -> 1
      [] id = BottomLeftRotate  -> 3
      [] OTHER                  -> 0

ArrowPoint(r, u, tip) == [r |-> r, u |-> u, tip |-> tip]

\* an element of res that was never assigned
Unset == ArrowPoint("unset", <<"none", 0>>, 0)

Write(index, point) == [index |-> index, point |-> point]

\* the body loop stopping one sample short
RECURSIVE MutArrowBody(_, _, _, _)
MutArrowBody(n, i, minBodyIndex, maxBodyIndex) ==
    IF i < n - 1
    THEN << Write(minBodyIndex, ArrowPoint("rMinBody", <<"sample", i>>, 0)),
            Write(maxBodyIndex, ArrowPoint("rMaxBody", <<"sample", i>>, 0)) >>
         \o MutArrowBody(n, i + 1, minBodyIndex + 1, maxBodyIndex - 1)
    ELSE <<>>

\* Arrow body: the assignments of the loop from its iteration i on
RECURSIVE ArrowBody(_, _, _, _)
ArrowBody(n, i, minBodyIndex, maxBodyIndex) ==
    IF i < n
    THEN << Write(minBodyIndex, ArrowPoint("rMinBody", <<"sample", i>>, 0)),
            Write(maxBodyIndex, ArrowPoint("rMaxBody", <<"sample", i>>, 0)) >>
         \o ArrowBody(n, i + 1, minBodyIndex + 1, maxBodyIndex - 1)
    ELSE <<>>

\* the assignments to res, in program order
ArrowWrites(n) ==
    << Write(0, ArrowPoint("rMaxHead", <<"start", 0>>, 0)),
       Write(1, ArrowPoint("rCenterline", <<"start", 0>>, -1)),
       Write(2, ArrowPoint("rMinHead", <<"start", 0>>, 0)),
       Write(n + 3, ArrowPoint("rMinHead", <<"end", 0>>, 0)),
       Write(n + 4, ArrowPoint("rCenterline", <<"end", 0>>, 1)),
       Write(n + 5, ArrowPoint("rMaxHead", <<"end", 0>>, 0)) >>
    \o ArrowBody(n, 0, 3, 2 * n + 5)

\* Vec2Vector res(2*n+6) after the assignments
ArrowRes(n, writes) ==
    [k \in 0 .. 2 * n + 5 |->
        LET at == {j \in 1 .. Len(writes) : writes[j].index = k}
        IN  IF at = {} THEN Unset
            ELSE writes[CHOOSE j \in at : \A l \in at : l <= j].point]

\* the assignments computeArrow_ makes and the vector they leave, which
\* depend on neither the widget nor the box
ArrowAssignments == ArrowWrites(rotateWidgetNumSamples)

ArrowContour == ArrowRes(rotateWidgetNumSamples, ArrowAssignments)

\* computeArrow_(id, bb, viewSettings): the vector returned (res), with the
\* assignments that filled it and the circle it lies on
computeArrow_(id, bb) ==
    [corner   |-> widgetPos_(id, bb),
     midAngle |-> rotateWidgetMidAngle_(id),
     writes   |-> ArrowAssignments,
     res      |-> ArrowContour]

\* the strip loop walking both sides of the body upwards
RECURSIVE MutFillBody(_, _, _, _)
MutFillBody(n, i, minBodyIndex, maxBodyIndex) ==
    IF i < n
    THEN <<minBodyIndex, minBodyIndex + n + 3>>
         \o MutFillBody(n, i + 1, minBodyIndex + 1, maxBodyIndex - 1)
    ELSE <<>>

\* Arrow body of glFillArrow_: the indices read by the loop from iteration i on
RECURSIVE FillBody(_, _, _, _)
FillBody(n, i, minBodyIndex, maxBodyIndex) ==
    IF i < n
    THEN <<minBodyIndex, maxBodyIndex>>
         \o FillBody(n, i + 1, minBodyIndex + 1, maxBodyIndex - 1)
    ELSE <<>>

\* the indices the strip loop of glFillArrow_ reads, whatever the arrow
FillStrip == FillBody(rotateWidgetNumSamples, 0, 3, 2 * rotateWidgetNumSamples + 5)

\* glFillArrow_(arrow): the indices of arrow read for the triangle strip and
\* for the triangles, in order
glFillArrow_(arrow) ==
    LET n == rotateWidgetNumSamples
    IN  [strip     |-> FillStrip,
         triangles |-> <<0, 1, 2, n + 3, n + 4, n + 5>>]

\* the indices the loop of glStrokeArrow_ reads, whatever the arrow
StrokeLoop == [i \in 1 .. (2 * rotateWidgetNumSamples + 6) |-> i - 1]

\* glStrokeArrow_(arrow): the indices read for the line loop
glStrokeArrow_(arrow) == StrokeLoop

-----------------------------------------------------------------------------
(* TransformTool::draw, drawPick                                           *)

CornerScaleWidgets ==
    <<TopLeftScale, TopRightScale, BottomRightScale, BottomLeftScale>>

EdgeScaleWidgets == <<TopScale, RightScale, BottomScale, LeftScale>>

RotateWidgets ==
    <<TopLeftRotate, TopRightRotate, BottomRightRotate, BottomLeftRotate>>

drawScaleWidget_(id, bb, hov) ==
    [call |-> "drawScaleWidget_", widget |-> id, pos |-> widgetPos_(id, bb),
     highlighted |-> (hov = id)]

drawPickScaleWidget_(id, bb, idOffset) ==
    [call |-> "drawPickScaleWidget_", widget |-> id, pos |-> widgetPos_(id, bb),
     pick |-> glPickColor_(id, idOffset)]

drawRotateWidget_(id, bb, hov) ==
    LET arrow == computeArrow_(id, bb)
    IN  [call |-> "drawRotateWidget_", widget |-> id, arrow |-> arrow,
         fill |-> glFillArrow_(arrow), stroke |-> glStrokeArrow_(arrow),
         highlighted |-> (hov = id)]

drawPickRotateWidget_(id, bb, idOffset) ==
    LET arrow == computeArrow_(id, bb)
    IN  [call |-> "drawPickRotateWidget_", widget |-> id, arrow |-> arrow,
         fill |-> glFillArrow_(arrow), pick |-> glPickColor_(id, idOffset)]

\* what draw emits when bb is proper
DrawCalls(bb, obb, hov) ==
    << [call |-> "glStrokeBoundingBox_", box |-> obb],
       [call |-> "glStrokeBoundingBox_", box |-> bb] >>
    \o [i \in 1 .. 4 |-> drawScaleWidget_(CornerScaleWidgets[i], bb, hov)]
    \o [i \in 1 .. 4 |-> drawScaleWidget_(EdgeScaleWidgets[i], bb, hov)]
    \o [i \in 1 .. 4 |-> drawRotateWidget_(RotateWidgets[i], bb, hov)]

\* what drawPick emits when bb is proper
DrawPickCalls(bb, idOffset) ==
    [i \in 1 .. 4 |-> drawPickScaleWidget_(CornerScaleWidgets[i], bb, idOffset)]
    \o [i \in 1 .. 4 |-> drawPickScaleWidget_(EdgeScaleWidgets[i], bb, idOffset)]
    \o [i \in 1 .. 4 |-> drawPickRotateWidget_(RotateWidgets[i], bb, idOffset)]

\* if (bb.isProper())
DrawsWidgets(bb) == isProper(bb)

draw(cells, time, bb, obb) ==
    /\ calls' = IF DrawsWidgets(bb) THEN DrawCalls(bb, obb, hovered_) ELSE <<>>
    /\ lastOp' = [Op("draw") EXCEPT !.bb = bb]
    /\ UNCHANGED toolVars
    /\ UNCHANGED <<mode, drag>>

drawPick(cells, time, bb) ==
    /\ calls' = IF DrawsWidgets(bb) THEN DrawPickCalls(bb, idOffset_) ELSE <<>>
    /\ lastOp' = [Op("drawPick") EXCEPT !.bb = bb]
    /\ UNCHANGED toolVars
    /\ UNCHANGED <<mode, drag>>

-----------------------------------------------------------------------------
(* TransformTool::beginTransform                                           *)

\* every inbetween cell keyframed, there at the time or not
MutCellsToKeyframe(cells, time) == {c \in cells : c \in InbetweenCells}

\* the inbetween cells that exist at the time
CellsToKeyframe(cells, time) ==
    {c \in cells : c \in InbetweenCells /\ exists(c, time)}

\* every other cell
CellsNotToKeyframe(cells, time) ==
    {c \in cells : ~(c \in InbetweenCells /\ exists(c, time))}

\* the closure forgotten: the keyframed cells and the cells not keyframed
MutCellsToTransform(cells, time) ==
    CellsNotToKeyframe(cells, time)
    \cup keyframe_(CellsToKeyframe(cells, time), time)

\* Determine which cells to transform
CellsToTransform(cells, time) ==
    closure(CellsNotToKeyframe(cells, time)
            \cup keyframe_(CellsToKeyframe(cells, time), time))

\* the vertices prepared before the edges
MutBeginCalls(cells, time) ==
    LET toTransform == CellsToTransform(cells, time)
    IN  << Call("keyframe_", CellsToKeyframe(cells, time), time, NoXf),
           Call("closure", toTransform, time, NoXf),
           Call("prepareAffineTransform", KeyVertexSet(toTransform), time, NoXf),
           Call("prepareAffineTransform", KeyEdgeSet(toTransform), time, NoXf) >>

\* the calls of a beginTransform that does not return early
BeginCalls(cells, time) ==
    LET toTransform == CellsToTransform(cells, time)
    IN  << Call("keyframe_", CellsToKeyframe(cells, time), time, NoXf),
           Call("closure", toTransform, time, NoXf),
           Call("prepareAffineTransform", KeyEdgeSet(toTransform), time, NoXf),
           Call("prepareAffineTransform", KeyVertexSet(toTransform), time, NoXf) >>

\* the empty cell set not checked for
MutBeginReturnsEarly(hov, cells) == hov = None

\* Return in trivial cases
BeginReturnsEarly(hov, cells) == hov = None \/ cells = {}

\* the early return taken before the caches are cleared
MutCleared(cache) == cache

\* only the edges dropped from a cache
MutClearedEdges(cache) == cache \ KeyEdges

\* Clear cached values: the dragged cells after clear()
Cleared(cache) == {}

beginTransform(cells, x0, y0, time, obb) ==
    /\ mode = "Idle"
    /\ IF BeginReturnsEarly(hovered_, cells)
       THEN /\ draggedVertices_' = Cleared(draggedVertices_)
            /\ draggedEdges_' = Cleared(draggedEdges_)
            /\ UNCHANGED baseline
            /\ mode' = "IdlePressed"
            /\ calls' = <<>>
            /\ lastOp' = [Op("beginTransform") EXCEPT
                            !.aborted = TRUE, !.cellsEmpty = (cells = {})]
            /\ drag' = [drag EXCEPT !.cleared = TRUE]
               ELSE LET toTransform == CellsToTransform(cells, time)
                obbWidgetPos == widgetPos_(hovered_, obb)
                obbOppositeWidgetPos == widgetOppositePos_(hovered_, obb)
            IN  /\ draggedVertices_' = KeyVertexSet(toTransform)
                /\ draggedEdges_' = KeyEdgeSet(toTransform)
                /\ x0_' = x0
                /\ y0_' = y0
                /\ dx_' = DSub(x0, obbWidgetPos[1])
                /\ dy_' = DSub(y0, obbWidgetPos[2])
                /\ xPivot_' = obbOppositeWidgetPos[1]
                /\ yPivot_' = obbOppositeWidgetPos[2]
                /\ mode' = "Dragging"
                /\ calls' = BeginCalls(cells, time)
                /\ lastOp' = [Op("beginTransform") EXCEPT !.cellsEmpty = (cells = {})]
                /\ drag' = [set |-> TRUE, cleared |-> FALSE, hov |-> hovered_,
                            obb |-> obb, x0 |-> x0, y0 |-> y0,
                            cells |-> cells, time |-> time,
                            prepared |-> CalledOn(BeginCalls(cells, time),
                                                  "prepareAffineTransform")]
    /\ UNCHANGED <<cells_, idOffset_, hovered_, manualPivot_>>

-----------------------------------------------------------------------------
(* TransformTool::continueTransform                                        *)

CornerScale == {TopLeftScale, TopRightScale, BottomRightScale, BottomLeftScale}
VerticalScale == {TopScale, BottomScale}
HorizontalScale == {RightScale, LeftScale}
Rotate == {TopLeftRotate, TopRightRotate, BottomRightRotate, BottomLeftRotate}

\* the drift left out: (x-xPivot_)/(x0_-xPivot_)
MutRatioX(x, b) == FDiv(DSub(x, b[5]), DSub(b[1], b[5]))

\* (x-dx_-xPivot_)/(x0_-dx_-xPivot_), b = <<x0_, y0_, dx_, dy_, xPivot_, yPivot_>>
RatioX(x, b) == FDiv(DSub(DSub(x, b[3]), b[5]), DSub(DSub(b[1], b[3]), b[5]))

\* (y-dy_-yPivot_)/(y0_-dy_-yPivot_)
RatioY(y, b) == FDiv(DSub(DSub(y, b[4]), b[6]), DSub(DSub(b[2], b[4]), b[6]))

\* theta - theta0
DTheta(x, y, b) ==
    AngleDiff(Atan2(FSub(y, b[6]), FSub(x, b[5])),
              Atan2(FSub(b[2], b[6]), FSub(b[1], b[5])))

\* the kind of transform chosen by the widget hovered at the press
MutAffineTransformation(hov, x, y, b) ==
    IF drag.hov \in CornerScale THEN Scaling(RatioX(x, b), RatioY(y, b))
    ELSE IF drag.hov \in VerticalScale THEN Scaling(One, RatioY(y, b))
    ELSE IF drag.hov \in HorizontalScale THEN Scaling(RatioX(x, b), One)
    ELSE IF drag.hov \in Rotate THEN Rotation2D(DTheta(x, y, b))
    ELSE NoXf

\* Determine affine transformation (NoXf: the function returns)
AffineTransformation(hov, x, y, b) ==
    IF hov \in CornerScale THEN Scaling(RatioX(x, b), RatioY(y, b))
    ELSE IF hov \in VerticalScale THEN Scaling(One, RatioY(y, b))
    ELSE IF hov \in HorizontalScale THEN Scaling(RatioX(x, b), One)
    ELSE IF hov \in Rotate THEN Rotation2D(DTheta(x, y, b))
    ELSE NoXf

\* the transform of continueTransform(cells, x, y), made relative to the pivot
ContinueXf(hov, x, y, b) ==
    LET xf == AffineTransformation(hov, x, y, b)
    IN  IF xf = NoXf THEN NoXf ELSE RelativeToPivot(xf, <<b[5], b[6]>>)

\* the snapshot taken again at every continueTransform
MutContinueCallsSnapshot(edges, vertices, xf) ==
    << Call("prepareAffineTransform", edges, 0, NoXf),
       Call("prepareAffineTransform", vertices, 0, NoXf),
       Call("performAffineTransform", edges, 0, xf),
       Call("performAffineTransform", vertices, 0, xf),
       Call("correctEdgesGeometry", vertices, 0, NoXf) >>

\* each vertex corrected right after it is transformed (one loop, not two)
MutContinueCalls(edges, vertices, xf) ==
    LET RECURSIVE each(_)
        each(vs) ==
            IF vs = {} THEN <<>>
            ELSE LET v == CHOOSE w \in vs : TRUE
                 IN  << Call("performAffineTransform", {v}, 0, xf),
                        Call("correctEdgesGeometry", {v}, 0, NoXf) >>
                     \o each(vs \ {v})
    IN  <<Call("performAffineTransform", edges, 0, xf)>> \o each(vertices)

\* Apply affine transformation
ContinueCalls(edges, vertices, xf) ==
    << Call("performAffineTransform", edges, 0, xf),
       Call("performAffineTransform", vertices, 0, xf),
       Call("correctEdgesGeometry", vertices, 0, NoXf) >>

\* the empty cell set not checked for
MutContinueReturnsEarly(hov, cells) == hov = None

\* Return in trivial cases
ContinueReturnsEarly(hov, cells) == hov = None \/ cells = {}

\* an incremental drag: the press position follows the pointer
MutBaselineAfterContinue(x, y) == <<x, y, dx_, dy_, xPivot_, yPivot_>>

\* x0_ .. yPivot_ after continueTransform(cells, x, y), which assigns none
BaselineAfterContinue(x, y) == baseline

continueTransform(cells, x, y) ==
    /\ mode # "Idle"
    /\ LET early == ContinueReturnsEarly(hovered_, cells)
           xf == IF early THEN NoXf ELSE ContinueXf(hovered_, x, y, baseline)
           b == IF early THEN baseline ELSE BaselineAfterContinue(x, y)
       IN  /\ calls' = IF xf = NoXf THEN <<>>
                       ELSE ContinueCalls(draggedEdges_, draggedVertices_, xf)
           /\ lastOp' = [Op("continueTransform") EXCEPT
                           !.aborted = (xf = NoXf), !.cellsEmpty = (cells = {}),
                           !.first = (lastOp.op = "beginTransform" /\ ~lastOp.aborted),
                           !.x = x, !.y = y, !.xf = xf]
           /\ x0_' = b[1] /\ y0_' = b[2] /\ dx_' = b[3] /\ dy_' = b[4]
           /\ xPivot_' = b[5] /\ yPivot_' = b[6]
    /\ UNCHANGED <<cells_, idOffset_, hovered_, manualPivot_, draggedVertices_,
                   draggedEdges_>>
    /\ UNCHANGED <<mode, drag>>

-----------------------------------------------------------------------------
(* TransformTool::endTransform                                             *)

\* the caches cleared at the end of the drag, as they are at its start
MutEndTransform(cells) ==
    /\ mode # "Idle"
    /\ mode' = "Idle"
    /\ draggedVertices_' = {}
    /\ draggedEdges_' = {}
    /\ UNCHANGED <<cells_, idOffset_, hovered_, manualPivot_, baseline>>
    /\ UNCHANGED drag
    /\ calls' = <<>>
    /\ lastOp' = Op("endTransform")

\* Nothing to do
endTransform(cells) ==
    /\ mode # "Idle"
    /\ mode' = "Idle"
    /\ UNCHANGED toolVars
    /\ UNCHANGED drag
    /\ calls' = <<>>
    /\ lastOp' = Op("endTransform")

-----------------------------------------------------------------------------

\* One step of the tool's owner.  ids: the pick ids reported; freeHover:
\* whether the hover can change while a button is pressed; sets: the cell
\* sets passed.
NextWith(ids, freeHover, sets) ==
    \/ \E cells \in sets : setCells(cells)
    \/ \E idOffset \in IdOffsets : setIdOffset(idOffset)
    \/ \E id \in ids : (freeHover \/ mode = "Idle") /\ setHoveredObject(id)
    \/ (freeHover \/ mode = "Idle") /\ setNoHoveredObject
    \/ \E cells \in sets, p \in Pointer, time \in Times :
         \E obb \in OutlineBoundingBoxes(cells, time) :
           beginTransform(cells, p[1], p[2], time, obb)
    \/ \E cells \in sets, p \in Pointer : continueTransform(cells, p[1], p[2])
    \/ \E cells \in sets : endTransform(cells)

\* A widget of each kind can be hovered, at any time
Next == NextWith(PickIds, TRUE, CellSets)

Spec == Init /\ [][Next]_vars

\* Every widget can be hovered, the hover changes only between two presses
\* (the pointer picks while no button is pressed), and the selection passed
\* is never empty
NextAllWidgets == NextWith(AllPickIds, FALSE, CellSets \ {{}})

SpecAllWidgets == Init /\ [][NextAllWidgets]_vars

\* The picking: the owner assigns any offset whose pick ids are ints, and
\* the picking subsystem reports any int
NextPick ==
    \/ \E idOffset \in PickOffsets : setIdOffset(idOffset)
    \/ \E id \in Ints : setHoveredObject(id)
    \/ setNoHoveredObject
    \/ \E cells \in CellSets, time \in Times :
         \E bb \in BoundingBoxes(cells, time) : drawPick(cells, time, bb)

SpecPick == Init /\ [][NextPick]_vars

\* The picking with any int for an offset
NextPickAll ==
    \/ \E idOffset \in Ints : setIdOffset(idOffset)
    \/ \E id \in Ints : setHoveredObject(id)
    \/ setNoHoveredObject
    \/ \E cells \in CellSets, time \in Times :
         \E bb \in BoundingBoxes(cells, time) : drawPick(cells, time, bb)

SpecPickAll == Init /\ [][NextPickAll]_vars

\* The pick ids of the widgets the last drawPick drew
Picked ==
    IF lastOp.op = "drawPick" THEN {calls[i].pick : i \in 1 .. Len(calls)} ELSE {}

\* The selections shown: a lone vertex, whose box is a point, and a key
\* edge, whose box is proper at the time of the edge and empty at the other
DrawSets == {{"v1"}, {"e1"}}

\* The view: it draws the tool and its picking image for the selection at
\* the current time, reports the widget of the picking image under the
\* pointer or none while no button is pressed, and passes the presses,
\* moves and releases of the pointer on
NextDraw ==
    \/ \E cells \in DrawSets, time \in Times :
         \E bb \in BoundingBoxes(cells, time), obb \in OutlineBoundingBoxes(cells, time) :
           draw(cells, time, bb, obb)
    \/ \E cells \in DrawSets, time \in Times :
         \E bb \in BoundingBoxes(cells, time) : drawPick(cells, time, bb)
    \/ \E id \in Picked : mode = "Idle" /\ setHoveredObject(id)
    \/ mode = "Idle" /\ setNoHoveredObject
    \/ \E cells \in DrawSets, p \in Pointer, time \in Times :
         \E obb \in OutlineBoundingBoxes(cells, time) :
           beginTransform(cells, p[1], p[2], time, obb)
    \/ \E cells \in DrawSets, p \in Pointer : continueTransform(cells, p[1], p[2])
    \/ \E cells \in DrawSets : endTransform(cells)

SpecDraw == Init /\ [][NextDraw]_vars

\* A coordinate one step above a power of two: it is a double, its
\* difference from 1 is not
FarCoordinate == 2 ^ DoubleBits + 2

\* Outline boxes away from the origin: a wide one, a narrow one and one of
\* no extent
FarBoxes ==
    {Box(Num(2), Num(FarCoordinate), Num(2), Num(FarCoordinate)),
     Box(Num(FarCoordinate - 2), Num(FarCoordinate),
         Num(FarCoordinate - 2), Num(FarCoordinate)),
     Box(Num(FarCoordinate), Num(FarCoordinate),
         Num(FarCoordinate), Num(FarCoordinate))}

\* Pointer positions: next to the origin, and on the far corner of the boxes
FarPointer == {<<Num(1), Num(1)>>, <<Num(FarCoordinate), Num(FarCoordinate)>>}

\* The pick ids of the eight scale widgets
ScalePickIds == 0 .. 7

\* Drags of a selection whose outline box lies away from the origin: every
\* scale widget can be hovered, the hover changes only between two presses
NextFar ==
    \/ \E id \in ScalePickIds : mode = "Idle" /\ setHoveredObject(id)
    \/ \E cells \in DrawSets, p \in FarPointer, time \in Times, obb \in FarBoxes :
         beginTransform(cells, p[1], p[2], time, obb)
    \/ \E cells \in DrawSets, p \in FarPointer : continueTransform(cells, p[1], p[2])
    \/ \E cells \in DrawSets : endTransform(cells)

SpecFar == Init /\ [][NextFar]_vars

-----------------------------------------------------------------------------
(* Properties of the drag operations                                       *)

\* the last operation was a beginTransform that did not return early
BeganDrag == lastOp.op = "beginTransform" /\ ~lastOp.aborted

\* the last operation was a continueTransform that reached its loops
Continued == lastOp.op = "continueTransform" /\ ~lastOp.aborted

\* the set handed to the loops of the call `name` in the last operation
SetOf(name) == CalledOn(calls, name)

\* what the begin recorded in d cached: press position, drift and pivot
BaselineOf(d) ==
    <<d.x0, d.y0,
      DSub(d.x0, widgetPos_(d.hov, d.obb)[1]),
      DSub(d.y0, widgetPos_(d.hov, d.obb)[2]),
      widgetOppositePos_(d.hov, d.obb)[1],
      widgetOppositePos_(d.hov, d.obb)[2]>>

\* C1: after a beginTransform that does not return early, the cached
\* vertices and edges are the key vertices and key edges of the set closure
\* returned; that set holds every cell the keyframing returned and every
\* input cell that was not keyframed, and it is closed under boundary, so
\* every cached edge has its end vertices cached.  The last part holds in
\* every state.
C1_ClosureCached ==
    /\ \A e \in draggedEdges_ : Boundary(e) \subseteq draggedVertices_
    /\ BeganDrag =>
          LET cl   == SetOf("closure")
              toKf == {c \in drag.cells : c \in InbetweenCells /\ exists(c, drag.time)}
              kept == drag.cells \ toKf
          IN  /\ cl # {}
              /\ SetOf("keyframe_") = toKf
              /\ {KeyframeOf(c, drag.time) : c \in toKf} \cup kept \subseteq cl
              /\ \A c \in cl : Boundary(c) \subseteq cl
              /\ draggedVertices_ = cl \cap KeyVertices
              /\ draggedEdges_ = cl \cap KeyEdges

\* a drag begun on a key edge and an inbetween cell: the edge, the key edge
\* e2 the keyframing gave, and the end vertices of both are cached
C1_Witness ==
    /\ BeganDrag
    /\ drag.cells = {"e1", "s1"} /\ drag.time = 1
    /\ draggedEdges_ = {"e1", "e2"}
    /\ draggedVertices_ = {"v1", "v2", "v3", "v4"}

\* C2: the caches hold the cells derived from the cell set of the most
\* recent beginTransform and nothing else: empty before any begin and after
\* a begin that returned early, and otherwise the key vertices and key edges
\* obtained from the cells and time of the last begin that went through.
C2_CachesOfLastBegin ==
    IF drag.set /\ ~drag.cleared
    THEN /\ draggedVertices_ = KeyVertexSet(CellsToTransform(drag.cells, drag.time))
         /\ draggedEdges_ = KeyEdgeSet(CellsToTransform(drag.cells, drag.time))
    ELSE draggedVertices_ = {} /\ draggedEdges_ = {}

\* a begin returned early after an earlier drag had filled the caches
C2_Witness ==
    /\ lastOp.op = "beginTransform" /\ lastOp.aborted
    /\ drag.set /\ drag.cleared
    /\ KeyVertexSet(CellsToTransform(drag.cells, drag.time)) # {}
    /\ draggedVertices_ = {} /\ draggedEdges_ = {}

\* C3: from the first beginTransform that goes through, the press position
\* is the pointer of the last such begin, the drift is that pointer minus
\* the hovered widget's position on the outline box of the begin's cells,
\* and the pivot is the opposite position on that box; continueTransform,
\* endTransform, the hover and cell setters and a begin that returns early
\* leave all six as they are.
C3_BaselineFixed == drag.set => baseline = BaselineOf(drag)

\* a drag on the proper box moved the pointer off the press point, the hover
\* changed since, and the cached baseline is still that of the begin
C3_Witness ==
    /\ drag.set /\ isProper(drag.obb)
    /\ Continued
    /\ <<lastOp.x, lastOp.y>> # <<drag.x0, drag.y0>>
    /\ hovered_ # drag.hov
    /\ x0_ = drag.x0 /\ xPivot_ = widgetOppositePos_(drag.hov, drag.obb)[1]

\* C4 (as stated): the continueTransform that immediately follows a
\* beginTransform that went through, at the press position, builds the
\* identity: scale factors 1, rotation angle 0, no translation.
C4_IdentityAtPress ==
    (Continued /\ lastOp.first /\ lastOp.x = x0_ /\ lastOp.y = y0_)
        => lastOp.xf = IdentityXf

\* C5 (as stated): the transform continueTransform builds about the pivot
\* maps the cached pivot to itself.
C5_PivotFixed ==
    Continued =>
        LET q == ApplyXf(lastOp.xf, <<xPivot_, yPivot_>>)
        IN  /\ q[1][2] = Zero /\ FEq(q[1][1], xPivot_)
            /\ q[2][2] = Zero /\ FEq(q[2][1], yPivot_)

\* C6: within a drag every continueTransform recomputes its transform from
\* the baseline of the begin and its own pointer alone: the transform is
\* the one a single continueTransform at that pointer right after the begin
\* builds, it is handed to the cached edges and to the cached vertices, and
\* no snapshot is taken again.
C6_AbsoluteRecomputation ==
    (Continued /\ mode = "Dragging") =>
        /\ lastOp.xf = ContinueXf(hovered_, lastOp.x, lastOp.y, BaselineOf(drag))
        /\ CalledOn(calls, "prepareAffineTransform") = {}
        /\ \A i \in 1 .. Len(calls) :
              calls[i].call = "performAffineTransform" => calls[i].xf = lastOp.xf
        /\ SetOf("performAffineTransform") = draggedEdges_ \cup draggedVertices_

\* a second or later continueTransform of a drag, off the press point
C6_Witness ==
    /\ Continued /\ mode = "Dragging" /\ ~lastOp.first
    /\ <<lastOp.x, lastOp.y>> # <<drag.x0, drag.y0>>
    /\ lastOp.xf # IdentityXf
    /\ IsFinite(lastOp.xf.tr[1][1])
    /\ draggedEdges_ # {}

\* C7: in a continueTransform the edges are transformed before the
\* vertices, and a vertex's edges are corrected only once every cached
\* vertex has been transformed.
C7_EdgesVerticesThenCorrect ==
    Continued =>
        \A i \in 1 .. Len(calls) :
            /\ (calls[i].call = "correctEdgesGeometry" /\ calls[i].cells # {}) =>
                  /\ draggedVertices_ \subseteq
                        UNION {calls[j].cells : j \in 1 .. i - 1}
                  /\ \A j \in i + 1 .. Len(calls) :
                        calls[j].call # "performAffineTransform"
            /\ (calls[i].call = "performAffineTransform"
                   /\ calls[i].cells \cap KeyEdges # {}) =>
                  \A j \in 1 .. i - 1 : calls[j].cells \cap KeyVertices = {}

\* a continueTransform on a cached edge with its two vertices
C7_Witness ==
    /\ Continued
    /\ Cardinality(draggedVertices_) >= 2 /\ draggedEdges_ # {}
    /\ Len(calls) = 3
    /\ calls[3].call = "correctEdgesGeometry"
    /\ calls[3].cells = draggedVertices_

\* C8: a beginTransform called with nothing hovered or with no cells
\* empties both caches and does nothing else: no member besides the caches
\* changes, nothing is keyframed or snapshotted, and no drag is under way.
C8_BeginAbortGuard ==
    [][ (lastOp'.op = "beginTransform" /\ (hovered_ = None \/ lastOp'.cellsEmpty))
          => /\ lastOp'.aborted
             /\ draggedVertices_' = {} /\ draggedEdges_' = {}
             /\ baseline' = baseline
             /\ <<cells_, idOffset_, hovered_, manualPivot_>>'
                   = <<cells_, idOffset_, hovered_, manualPivot_>>
             /\ calls' = <<>>
             /\ mode' # "Dragging" ]_vars

\* a begin with a widget hovered and no cells, after a drag had filled the
\* caches and the baseline
C8_Witness ==
    /\ lastOp.op = "beginTransform" /\ lastOp.aborted /\ lastOp.cellsEmpty
    /\ hovered_ # None
    /\ drag.set /\ baseline = BaselineOf(drag)
    /\ draggedVertices_ = {} /\ mode = "IdlePressed"

\* C9: a continueTransform called with nothing hovered, with no cells, or
\* with a hovered id outside the scale and rotate widgets changes no member
\* and transforms and corrects nothing.
C9_ContinueNoOpGuard ==
    [][ (lastOp'.op = "continueTransform"
           /\ (hovered_ = None \/ lastOp'.cellsEmpty
                  \/ hovered_ \notin (CornerScale \cup VerticalScale
                                        \cup HorizontalScale \cup Rotate)))
          => /\ toolVars' = toolVars
             /\ calls' = <<>>
             /\ mode' = mode ]_vars

\* a continueTransform with no cells in the middle of a drag: a widget is
\* hovered and the caches are full, and nothing was transformed
C9_Witness ==
    /\ lastOp.op = "continueTransform" /\ lastOp.cellsEmpty
    /\ hovered_ # None /\ mode = "Dragging"
    /\ draggedVertices_ # {}
    /\ calls = <<>>

-----------------------------------------------------------------------------
(* Properties of the hover and of the pick ids                             *)

-----------------------------------------------------------------------------
(* Properties of the steps of a drag                                       *)

\* C13: a beginTransform that does not return early calls keyframe_ exactly
\* once, with the time it was given and exactly the input cells that are
\* inbetween cells existing at that time, before closure and before every
\* prepareAffineTransform; every other input cell is handed on as it is.
C13_KeyframeOnce ==
    BeganDrag =>
        LET kf   == {i \in 1 .. Len(calls) : calls[i].call = "keyframe_"}
            toKf == {c \in drag.cells : c \in InbetweenCells /\ exists(c, drag.time)}
        IN  /\ Cardinality(kf) = 1
            /\ \A i \in kf :
                  /\ calls[i].cells = toKf
                  /\ calls[i].time = drag.time
                  /\ \A j \in 1 .. Len(calls) :
                        calls[j].call \in {"closure", "prepareAffineTransform"}
                            => i < j
            /\ drag.cells \ toKf \subseteq SetOf("closure")

\* a drag begun at a time when the inbetween cell of the selection is not
\* there: nothing is keyframed and the inbetween cell is kept
C13_Witness ==
    /\ BeganDrag
    /\ drag.cells = {"e1", "s1"} /\ drag.time = 0
    /\ SetOf("keyframe_") = {}
    /\ "s1" \in SetOf("closure")

\* the linear part of a scale by sx along x and sy along y
ScaleBy(sx, sy) == << <<ERat(sx), EZero>>, <<EZero, ERat(sy)>> >>

\* C14: with a corner scale widget hovered, continueTransform(cells, x, y)
\* scales x by (x - dx_ - xPivot_) / (x0_ - dx_ - xPivot_) and y by
\* (y - dy_ - yPivot_) / (y0_ - dy_ - yPivot_); for the outline box
\* [0,10] x [0,10], TopLeftScale, a press at (0,0) and the pointer at (5,5),
\* both factors are 1/2.
C14_CornerScaleFactor ==
    /\ (Continued /\ hovered_ \in {TopLeftScale, TopRightScale,
                                   BottomRightScale, BottomLeftScale}) =>
          lastOp.xf.lin =
             ScaleBy(FDiv(DSub(DSub(lastOp.x, dx_), xPivot_),
                          DSub(DSub(x0_, dx_), xPivot_)),
                     FDiv(DSub(DSub(lastOp.y, dy_), yPivot_),
                          DSub(DSub(y0_, dy_), yPivot_)))
    /\ (Continued /\ hovered_ = TopLeftScale /\ drag.hov = TopLeftScale
          /\ drag.obb = Box(Num(0), Num(10), Num(0), Num(10))
          /\ drag.x0 = Num(0) /\ drag.y0 = Num(0)
          /\ lastOp.x = Num(5) /\ lastOp.y = Num(5)) =>
          lastOp.xf.lin = ScaleBy(Half, Half)

\* the drag of the example: pressed on the top left corner of the box
\* [0,10] x [0,10], pointer at (5,5)
C14_Witness ==
    /\ Continued /\ mode = "Dragging"
    /\ hovered_ = TopLeftScale /\ drag.hov = TopLeftScale
    /\ drag.obb = Box(Num(0), Num(10), Num(0), Num(10))
    /\ drag.x0 = Num(0) /\ drag.y0 = Num(0)
    /\ lastOp.x = Num(5) /\ lastOp.y = Num(5)
    /\ lastOp.xf.lin = ScaleBy(Half, Half)

\* positions a point of a transformed cell may have
SamplePoints == {<<Zero, Zero>>, <<Num(5), Num(5)>>, <<Num(10), Num(3)>>}

\* C15 (as stated): with TopScale or BottomScale hovered, continueTransform
\* scales x by 1 whatever the pointer, the x coordinate of every point of a
\* transformed cell is unchanged, and the x coordinate of the pointer has no
\* effect on the transform; likewise for LeftScale and RightScale and y.
C15_EdgeScaleAxisKept ==
    /\ (Continued /\ hovered_ \in {TopScale, BottomScale}) =>
          /\ lastOp.xf.lin[1] = <<EOne, EZero>>
          /\ \A p \in Pointer :
                ContinueXf(hovered_, p[1], lastOp.y, baseline) = lastOp.xf
          /\ SetOf("performAffineTransform") # {} =>
                \A q \in SamplePoints : ApplyXf(lastOp.xf, q)[1] = ERat(q[1])
    /\ (Continued /\ hovered_ \in {LeftScale, RightScale}) =>
          /\ lastOp.xf.lin[2] = <<EZero, EOne>>
          /\ \A p \in Pointer :
                ContinueXf(hovered_, lastOp.x, p[2], baseline) = lastOp.xf
          /\ SetOf("performAffineTransform") # {} =>
                \A q \in SamplePoints : ApplyXf(lastOp.xf, q)[2] = ERat(q[2])

-----------------------------------------------------------------------------
(* Properties of the widget geometry and of the arrows                     *)

\* bb with min and max swapped on the axes the widget lies on: both for a
\* corner, y for the top and bottom edges, x for the left and right edges
Swapped(id, bb) ==
    IF id \in {TopScale, BottomScale} THEN Box(bb.xMin, bb.xMax, bb.yMax, bb.yMin)
    ELSE IF id \in {LeftScale, RightScale} THEN Box(bb.xMax, bb.xMin, bb.yMin, bb.yMax)
    ELSE Box(bb.xMax, bb.xMin, bb.yMax, bb.yMin)

\* the corner scale widget of a rotate widget
CornerOf(id) == id - (TopLeftRotate - TopLeftScale)

\* boxes: a square, one with four different bounds, one across the origin,
\* a point and the empty box
SampleBoxes ==
    {Box(Num(0), Num(10), Num(0), Num(10)), Box(Num(1), Num(4), Num(2), Num(9)),
     Box(Num(-3), Num(2), Num(-1), Num(7)), PointBox, EmptyBox}

\* C16: for each of the twelve widgets and every box, widgetOppositePos_ is
\* widgetPos_ on the box with min and max swapped on the axes the widget
\* lies on, and a rotate widget has the positions of its corner scale
\* widget; so the pivot a beginTransform caches is the position of the
\* hovered widget on the swapped outline box.
C16_OppositeDuality ==
    /\ \A id \in WidgetIds, bb \in SampleBoxes :
          /\ widgetOppositePos_(id, bb) = widgetPos_(id, Swapped(id, bb))
          /\ id \in Rotate =>
                /\ widgetPos_(id, bb) = widgetPos_(CornerOf(id), bb)
                /\ widgetOppositePos_(id, bb) = widgetOppositePos_(CornerOf(id), bb)
    /\ BeganDrag =>
          <<xPivot_, yPivot_>> = widgetPos_(drag.hov, Swapped(drag.hov, drag.obb))

\* a drag begun on the right edge of the box [0,10] x [0,10]: the pivot is
\* the middle of the left edge
C16_Witness ==
    /\ BeganDrag /\ drag.hov = RightScale
    /\ drag.obb = Box(Num(0), Num(10), Num(0), Num(10))
    /\ <<xPivot_, yPivot_>> = <<Num(0), Num(5)>>

\* the arrows computed by the last operation, one for each rotate widget a
\* draw or a drawPick draws
Arrows ==
    {calls[i].arrow : i \in {j \in 1 .. Len(calls) :
        calls[j].call \in {"drawRotateWidget_", "drawPickRotateWidget_"}}}

HeadRadii == {"rMaxHead", "rCenterline", "rMinHead"}

\* the points at the indices ks are the three points of the head at angle u
IsHead(res, ks, u) ==
    /\ Cardinality(ks) = 3
    /\ \A k \in ks : res[k].u = <<u, 0>>
    /\ {res[k].r : k \in ks} = HeadRadii

\* the points at the indices ks are n pairs, one pair for each sample of the
\* body: a point on the inner and a point on the outer radius
IsBody(res, ks, n) ==
    /\ Cardinality(ks) = 2 * n
    /\ \A i \in 0 .. n - 1 :
          /\ Cardinality({k \in ks : res[k] = ArrowPoint("rMinBody", <<"sample", i>>, 0)}) = 1
          /\ Cardinality({k \in ks : res[k] = ArrowPoint("rMaxBody", <<"sample", i>>, 0)}) = 1

ArrowCalls ==
    {calls[i] : i \in {j \in 1 .. Len(calls) :
        calls[j].call \in {"drawRotateWidget_", "drawPickRotateWidget_"}}}

\* C18: in the vector computeArrow_ returns, the indices 0..2 hold the first
\* head, n+3..n+5 the second head, and the body sample i lies at 3+i on the
\* inner radius and at 2n+5-i on the outer radius; every index of 0..2n+5
\* is assigned exactly once; glFillArrow_ reads exactly the pairs
\* (3+i, 2n+5-i) for the triangle strip and 0, 1, 2, n+3, n+4, n+5 for the
\* two triangles.
C18_ArrowIndexLayout ==
    \A c \in ArrowCalls :
        LET n      == rotateWidgetNumSamples
            res    == c.arrow.res
            writes == c.arrow.writes
        IN  /\ res[0] = ArrowPoint("rMaxHead", <<"start", 0>>, 0)
            /\ res[1] = ArrowPoint("rCenterline", <<"start", 0>>, -1)
            /\ res[2] = ArrowPoint("rMinHead", <<"start", 0>>, 0)
            /\ res[n + 3] = ArrowPoint("rMinHead", <<"end", 0>>, 0)
            /\ res[n + 4] = ArrowPoint("rCenterline", <<"end", 0>>, 1)
            /\ res[n + 5] = ArrowPoint("rMaxHead", <<"end", 0>>, 0)
            /\ \A i \in 0 .. n - 1 :
                  /\ res[3 + i] = ArrowPoint("rMinBody", <<"sample", i>>, 0)
                  /\ res[2 * n + 5 - i] = ArrowPoint("rMaxBody", <<"sample", i>>, 0)
            /\ \A j \in 1 .. Len(writes) : writes[j].index \in 0 .. 2 * n + 5
            /\ \A k \in 0 .. 2 * n + 5 :
                  Cardinality({j \in 1 .. Len(writes) : writes[j].index = k}) = 1
            /\ Len(c.fill.strip) = 2 * n
            /\ \A i \in 0 .. n - 1 :
                  /\ c.fill.strip[2 * i + 1] = 3 + i
                  /\ c.fill.strip[2 * i + 2] = 2 * n + 5 - i
            /\ c.fill.triangles = <<0, 1, 2, n + 3, n + 4, n + 5>>

\* a drawPick of a proper box: four arrows, the strip of each ending with
\* the last body sample, read at n+2 and n+6
C18_Witness ==
    /\ lastOp.op = "drawPick" /\ isProper(lastOp.bb)
    /\ Cardinality(ArrowCalls) = 4
    /\ \A c \in ArrowCalls :
          LET n == rotateWidgetNumSamples
          IN  /\ c.fill.strip[2 * n - 1] = n + 2 /\ c.fill.strip[2 * n] = n + 6
              /\ c.arrow.res[n + 6] = ArrowPoint("rMaxBody", <<"sample", n - 1>>, 0)

-----------------------------------------------------------------------------
(* Properties of the guards of a drag                                      *)

\* the box of the selection of the drag d, at its time, is proper
ProperAt(d) == \A bb \in BoundingBoxes(d.cells, d.time) : isProper(bb)

\* C19 (as stated): when the union of the bounding boxes of the cells at the
\* current time is not proper, draw and drawPick emit no widget and no pick
\* id, no beginTransform caches a baseline for these cells and no
\* continueTransform transforms a cell.
C19_NonProperSuppresses ==
    /\ (lastOp.op \in {"draw", "drawPick"} /\ ~isProper(lastOp.bb)) => calls = <<>>
    /\ BeganDrag => ProperAt(drag)
    /\ (Continued /\ mode = "Dragging" /\ SetOf("performAffineTransform") # {})
          => ProperAt(drag)

\* the cells prepared by the most recent beginTransform: those of the drag
\* d, or none when a later beginTransform returned early
PreparedBy(d) == IF d.set /\ ~d.cleared THEN d.prepared ELSE {}

\* C20: a key vertex or key edge receives performAffineTransform only if
\* the most recent beginTransform called prepareAffineTransform on it; a
\* beginTransform prepares every cached edge and every cached vertex, all
\* the edges before any vertex.
C20_PrepareBeforePerform ==
    /\ SetOf("performAffineTransform") \subseteq PreparedBy(drag)
    /\ BeganDrag =>
          LET prep == {i \in 1 .. Len(calls) : calls[i].call = "prepareAffineTransform"}
          IN  /\ SetOf("prepareAffineTransform") = draggedEdges_ \cup draggedVertices_
              /\ \A i, j \in prep :
                    (calls[i].cells \cap KeyEdges # {} /\ calls[j].cells \cap KeyVertices # {})
                        => i < j

\* a continueTransform of a drag that transforms the edge and the two
\* vertices its beginTransform prepared
C20_Witness ==
    /\ Continued /\ mode = "Dragging"
    /\ SetOf("performAffineTransform") = {"e1", "v1", "v2"}
    /\ drag.prepared = {"e1", "v1", "v2"}

-----------------------------------------------------------------------------
(* Properties of the baseline and of the hover during a drag               *)

\* C21 (as stated): after a beginTransform that does not return early,
\* press position - drift - pivot is widgetPos_ - widgetOppositePos_ of the
\* hovered widget on the outline box, on both axes, whatever the press
\* position; so the denominator of a scale widget on an axis it scales is
\* zero exactly when the outline box has no extent on that axis.
C21_DenominatorIsExtent ==
    BeganDrag =>
        LET wp   == widgetPos_(hovered_, drag.obb)
            opp  == widgetOppositePos_(hovered_, drag.obb)
            denX == DSub(DSub(x0_, dx_), xPivot_)
            denY == DSub(DSub(y0_, dy_), yPivot_)
        IN  /\ denX = DSub(wp[1], opp[1])
            /\ denY = DSub(wp[2], opp[2])
            /\ hovered_ \in CornerScale \cup HorizontalScale =>
                  (denX = Zero <=> drag.obb.xMin = drag.obb.xMax)
            /\ hovered_ \in CornerScale \cup VerticalScale =>
                  (denY = Zero <=> drag.obb.yMin = drag.obb.yMax)

\* C22: while the most recent beginTransform is one that returned early, a
\* continueTransform calls performAffineTransform and correctEdgesGeometry
\* on no cell, also when a widget is hovered and the cell set is not empty
\* by then, and when the baseline of an earlier drag is still stored.
C22_AbortedBeginMovesNothing ==
    (lastOp.op = "continueTransform" /\ drag.cleared) =>
        /\ SetOf("performAffineTransform") = {}
        /\ SetOf("correctEdgesGeometry") = {}

\* a press with nothing hovered after a drag, a widget hovered since, and a
\* continueTransform of a non-empty cell set that reaches its loops with
\* the transform it builds from the baseline of the earlier drag
C22_Witness ==
    /\ Continued /\ drag.cleared /\ drag.set
    /\ ~lastOp.cellsEmpty /\ hovered_ # None
    /\ baseline = BaselineOf(drag)
    /\ lastOp.xf # NoXf
    /\ Len(calls) = 3
    /\ SetOf("performAffineTransform") = {}

\* the pivot and the drift recorded at the beginTransform of the drag d
PivotOf(d) == widgetOppositePos_(d.hov, d.obb)

DriftOf(d) ==
    <<DSub(d.x0, widgetPos_(d.hov, d.obb)[1]), DSub(d.y0, widgetPos_(d.hov, d.obb)[2])>>

\* the transform of the kind of the widget hov at the pointer (x, y), from
\* the baseline b, about the pivot of b
KindAbout(hov, x, y, b) ==
    IF hov \in CornerScale
    THEN RelativeToPivot(Scaling(RatioX(x, b), RatioY(y, b)), <<b[5], b[6]>>)
    ELSE IF hov \in VerticalScale
    THEN RelativeToPivot(Scaling(One, RatioY(y, b)), <<b[5], b[6]>>)
    ELSE IF hov \in HorizontalScale
    THEN RelativeToPivot(Scaling(RatioX(x, b), One), <<b[5], b[6]>>)
    ELSE IF hov \in Rotate
    THEN RelativeToPivot(Rotation2D(DTheta(x, y, b)), <<b[5], b[6]>>)
    ELSE NoXf

\* during a drag the transform of a continueTransform is of the kind of the
\* widget hovered now, built on the pivot and the drift of the widget
\* hovered at the beginTransform
KindNowBaselineOfPress ==
    (lastOp.op = "continueTransform" /\ mode = "Dragging") =>
        /\ <<xPivot_, yPivot_>> = PivotOf(drag)
        /\ <<dx_, dy_>> = DriftOf(drag)
        /\ lastOp.xf =
              IF lastOp.cellsEmpty THEN NoXf
              ELSE KindAbout(hovered_, lastOp.x, lastOp.y,
                             <<drag.x0, drag.y0, DriftOf(drag)[1], DriftOf(drag)[2],
                               PivotOf(drag)[1], PivotOf(drag)[2]>>)
        /\ (hovered_ = drag.hov /\ ~lastOp.cellsEmpty) =>
              lastOp.xf = KindAbout(drag.hov, lastOp.x, lastOp.y, baseline)

\* only setHoveredObject and setNoHoveredObject change the hover
HoverKept ==
    lastOp'.op \notin {"setHoveredObject", "setNoHoveredObject"} => hovered_' = hovered_

\* C23: the kind of transform continueTransform uses is selected by the
\* widget hovered at that call, its pivot and drift are those recorded for
\* the widget hovered at beginTransform; no operation but setHoveredObject
\* and setNoHoveredObject changes the hover, so in a drag without them the
\* kind is that of the widget hovered at beginTransform and the pivot is
\* the opposite position of that widget.
C23_HoverChangeDuringDrag == [](KindNowBaselineOfPress) /\ [][HoverKept]_vars

\* a drag begun on a corner scale widget in which a rotate widget is hovered
\* by the time of a continueTransform: a rotation about the pivot of the
\* scale widget
C23_Witness ==
    /\ Continued /\ mode = "Dragging"
    /\ drag.hov = TopLeftScale /\ hovered_ = TopLeftRotate
    /\ isProper(drag.obb)
    /\ <<xPivot_, yPivot_>> = <<drag.obb.xMax, drag.obb.yMax>>
    /\ lastOp.xf.lin[1][2] # EZero

\* the pick id reported for the widget w with the offset idOffset_, in int
\* arithmetic
ReportedFor(w) == Wrap(idOffset_ + (w - MIN_WIDGET_ID))

\* C24: for every int idOffset_ and every int id, with int arithmetic
\* wrapping around, setHoveredObject(id) makes a widget hovered only when id
\* is the pick id the tool reports for that widget, idOffset_ + k with
\* 0 <= k <= MAX_WIDGET_ID - MIN_WIDGET_ID as an int, and clears the hover
\* for every other id; drawPick reports these ids, which are idOffset_ + k
\* itself whenever that is an int.
C24_RobustToAnyInt ==
    /\ lastOp.op = "setHoveredObject" =>
          /\ \A w \in WidgetIds : hovered_ = w <=> lastOp.id = ReportedFor(w)
          /\ (\A w \in WidgetIds : lastOp.id # ReportedFor(w)) => hovered_ = None
    /\ (lastOp.op = "drawPick" /\ isProper(lastOp.bb)) =>
          \A i \in 1 .. Len(calls) :
              /\ calls[i].pick = ReportedFor(calls[i].widget)
              /\ calls[i].pick \in Ints
              /\ idOffset_ + (calls[i].widget - MIN_WIDGET_ID) \in Ints =>
                    calls[i].pick = idOffset_ + (calls[i].widget - MIN_WIDGET_ID)

\* with the largest int for an offset, the pick id of the fourth widget,
\* which wrapped around to a negative int, was reported back
C24_Witness ==
    /\ lastOp.op = "setHoveredObject"
    /\ idOffset_ = MaxInt /\ lastOp.id = MinInt + 2
    /\ hovered_ = BottomLeftScale

=============================================================================
